---- MODULE Spec2Model ----
(***************************************************************************)
(* Model of pyart.graph.radarmapdisplay.RadarMapDisplay.                   *)
(*                                                                         *)
(* Numbers.  Floating point quantities are fixed-point integers:           *)
(*   - Cartesian coordinates handed to the projection are whole meters;    *)
(*     the coordinates the accessor _get_x_y returns are whole units of    *)
(*     its own (plot_ppi_map multiplies them by 1000.0 before projecting); *)
(*   - longitudes and latitudes are thousandths of a degree;               *)
(*   - angles and sin/cos values are multiples of 1/Scale.                 *)
(* Python's None is the value None (a basemap) or NoneText (a string).     *)
(***************************************************************************)
EXTENDS Integers, Sequences, FiniteSets, TLC

VARIABLES
    loc,          \* self.loc: <<lat, lon>> of the radar
    proj,         \* self.proj: the pyproj.Proj built by __init__
    basemap,      \* self.basemap: None or the last stored Basemap
    plots,        \* self.plots: mesh handles (identity of the QuadMesh)
    plot_vars,    \* self.plot_vars: field names
    cbs,          \* self.cbs: colorbar handles (inherited list)
    drawn,        \* draw commands the most recent call issued to the axes
    err,          \* TRUE iff the most recent call raised
    call,         \* the most recent call: its name, its arguments and, for
                  \* plot_ppi_map, the statement that raised ("none": it returned)
    nCalls,       \* number of plot_ppi_map calls made so far
    fieldsCalled, \* while allCompleted: the field argument of every plot_ppi_map call, in order
    allCompleted  \* TRUE iff no plot_ppi_map call has raised so far

vars == <<loc, proj, basemap, plots, plot_vars, cbs, drawn, err, call,
          nCalls, fieldsCalled, allCompleted>>

(***************************************************************************)
(* Bounds and input sets                                                   *)
(***************************************************************************)
MaxCalls == 2

Locs == { <<41000, -88000>> }
Fields == {"reflectivity", "velocity"}
NoneText == "<None>"

\* sweeps as the accessor returns them: sequences of <<x, y>> gates
Sweeps == { <<>>,
            << <<1, 0>>, <<0, -40>>, <<-20, 20>> >> }

\* <<min_lon, max_lon, min_lat, max_lat>>; the first is the signature's default
BoundsArgs == { <<-92000, -86000, 40000, 44000>>,
                <<-89000, -87000, 40500, 41500>> }

\* <<title_flag, colorbar_flag, shapefile>>; the first is the signature's default
Decorations == { <<TRUE, TRUE, NoneText>>, <<FALSE, FALSE, "borders.shp">> }

GeoPoints == { <<-87500, 41250>> }
LabelTexts == { NoneText, "KLOT" }
LabelOffsets == { <<50, 50>> }
Symbols == {"ro"}
LineStyles == {"r-", "k--"}
GeoLines == { << <<-88000, 41000>>, <<-87000, 42000>> >>,
              << <<-88000, 41000>>, <<-88100, 41100>>, <<-88000, 41200>> >> }
XYLines == { << <<1000, 0>>, <<0, -40000>>, <<-20000, 20000>> >>,
             << <<1, 0>>, <<0, -40>>, <<-20, 20>> >> }
Ranges == {1000, 40000}

(***************************************************************************)
(* Helpers                                                                 *)
(***************************************************************************)
SetMin(S) == CHOOSE m \in S : \A s \in S : m <= s
SetMax(S) == CHOOSE m \in S : \A s \in S : m >= s
Min2(a, b) == IF a <= b THEN a ELSE b

(***************************************************************************)
(* Python's None for self.basemap (line 91): id 0 is no Basemap object.    *)
(***************************************************************************)
None == [id |-> 0, llcrnrlon |-> 0, llcrnrlat |-> 0, urcrnrlon |-> 0, urcrnrlat |-> 0]

(***************************************************************************)
(* pyproj.Proj(proj='lcc', lat_0=loc[0], lon_0=loc[1], x_0=0, y_0=0)       *)
(***************************************************************************)
MetersPerMilliDegree == 100

Proj(l) == [lat_0 |-> l[1], lon_0 |-> l[2]]

\* self.proj(x, y, inverse=True): meters from the origin -> <<lon, lat>>
ProjInverse(p, x, y) ==
    << p.lon_0 + (x \div MetersPerMilliDegree),
       p.lat_0 + (y \div MetersPerMilliDegree) >>

ProjInverseAll(p, pts) == [i \in 1..Len(pts) |-> ProjInverse(p, pts[i][1], pts[i][2])]

(***************************************************************************)
(* Basemap(llcrnrlon, llcrnrlat, urcrnrlon, urcrnrlat, ...) and its call   *)
(* basemap(lon, lat): map coordinates in meters from the lower left corner *)
(***************************************************************************)
Basemap(n, min_lon, min_lat, max_lon, max_lat) ==
    [id |-> n, llcrnrlon |-> min_lon, llcrnrlat |-> min_lat,
     urcrnrlon |-> max_lon, urcrnrlat |-> max_lat]

BasemapCall(bm, lon, lat) ==
    << (lon - bm.llcrnrlon) * MetersPerMilliDegree,
       (lat - bm.llcrnrlat) * MetersPerMilliDegree >>

BasemapCallAll(bm, ll) == [i \in 1..Len(ll) |-> BasemapCall(bm, ll[i][1], ll[i][2])]

\* calling self.basemap raises TypeError when it is None
Callable(bm) == bm # None

NoArgs == [op |-> "__init__", field |-> NoneText, pts |-> <<>>, angle |-> <<>>,
           style |-> NoneText, text |-> NoneText, offset |-> <<0, 0>>,
           range |-> 0, auto_range |-> FALSE, bounds |-> <<0, 0, 0, 0>>,
           raised |-> "none"]

Init ==
    /\ loc \in Locs
    /\ proj = Proj(loc)
    /\ basemap = None
    /\ plots = <<>>
    /\ plot_vars = <<>>
    /\ cbs = <<>>
    /\ drawn = <<>>
    /\ err = FALSE
    /\ call = NoArgs
    /\ nCalls = 0
    /\ fieldsCalled = <<>>
    /\ allCompleted = TRUE

(***************************************************************************)
(* plot_line_geo (lines 249-266)                                           *)
(***************************************************************************)
\* variant: returns without drawing when there is no basemap
LineGeoEffectSilent(bm, ll, line_style) ==
    IF Callable(bm)
    THEN [err |-> FALSE,
          drawn |-> << [kind |-> "plot", pts |-> BasemapCallAll(bm, ll),
                        style |-> line_style, text |-> NoneText] >>]
    ELSE [err |-> FALSE, drawn |-> <<>>]

LineGeoEffect(bm, ll, line_style) ==
    IF Callable(bm)
    THEN [err |-> FALSE,
          drawn |-> << [kind |-> "plot", pts |-> BasemapCallAll(bm, ll),
                        style |-> line_style, text |-> NoneText] >>]
    ELSE [err |-> TRUE, drawn |-> <<>>]

\* variant: records the drawn line in self.plots
plot_line_geo_tracked(line, line_style) ==
    /\ call' = [NoArgs EXCEPT !.op = "plot_line_geo", !.pts = line, !.style = line_style]
    /\ err' = LineGeoEffect(basemap, line, line_style).err
    /\ drawn' = LineGeoEffect(basemap, line, line_style).drawn
    /\ plots' = IF Callable(basemap) THEN Append(plots, 0) ELSE plots
    /\ UNCHANGED <<loc, proj, basemap, plot_vars, cbs, nCalls, fieldsCalled, allCompleted>>

plot_line_geo(line, line_style) ==
    /\ call' = [NoArgs EXCEPT !.op = "plot_line_geo", !.pts = line, !.style = line_style]
    /\ err' = LineGeoEffect(basemap, line, line_style).err
    /\ drawn' = LineGeoEffect(basemap, line, line_style).drawn
    /\ UNCHANGED <<loc, proj, basemap, plots, plot_vars, cbs, nCalls, fieldsCalled, allCompleted>>

(***************************************************************************)
(* plot_line_xy (lines 268-285)                                            *)
(***************************************************************************)
\* variant: scales the vertices as plot_ppi_map scales the gates
LineXYEffectScaled(bm, p, pts, line_style) ==
    LineGeoEffect(bm, ProjInverseAll(p, [i \in 1..Len(pts) |->
                         << pts[i][1] * 1000, pts[i][2] * 1000 >>]), line_style)

LineXYEffect(bm, p, pts, line_style) ==
    LineGeoEffect(bm, ProjInverseAll(p, pts), line_style)

plot_line_xy(pts, line_style) ==
    /\ call' = [NoArgs EXCEPT !.op = "plot_line_xy", !.pts = pts, !.style = line_style]
    /\ err' = LineXYEffect(basemap, proj, pts, line_style).err
    /\ drawn' = LineXYEffect(basemap, proj, pts, line_style).drawn
    /\ UNCHANGED <<loc, proj, basemap, plots, plot_vars, cbs, nCalls, fieldsCalled, allCompleted>>

(***************************************************************************)
(* numpy: np.pi, np.linspace, np.sin, np.cos in fixed point                *)
(***************************************************************************)
Scale == 10000
Pi == 31416
TwoPi == 2 * Pi
HalfPi == Pi \div 2

\* variant: endpoint=False
LinspaceOpen(start, stop, num) ==
    [k \in 1..num |-> start + (((k - 1) * (stop - start)) \div num)]

\* np.linspace(start, stop, num): num samples, both end points included
Linspace(start, stop, num) ==
    [k \in 1..num |-> start + (((k - 1) * (stop - start)) \div (num - 1))]

\* sine of x in [0, pi/2] by its Taylor polynomial of degree 9
SinQuadrant(x) ==
    LET x2 == (x * x) \div Scale
        t3 == (x * x2) \div (Scale * 6)
        t5 == (t3 * x2) \div (Scale * 20)
        t7 == (t5 * x2) \div (Scale * 42)
        t9 == (t7 * x2) \div (Scale * 72)
    IN  x - t3 + t5 - t7 + t9

Sin(a) ==
    LET m == a % TwoPi
    IN  IF m <= HalfPi THEN SinQuadrant(m)
        ELSE IF m <= Pi THEN SinQuadrant(Pi - m)
        ELSE IF m <= Pi + HalfPi THEN 0 - SinQuadrant(m - Pi)
        ELSE 0 - SinQuadrant(TwoPi - m)

Cos(a) == Sin(a + HalfPi)

(***************************************************************************)
(* plot_range_ring (lines 287-306)                                         *)
(***************************************************************************)
npts == 360

RingAngle == Linspace(0, TwoPi, npts)

RingX(radar_range, a) == (radar_range * Sin(a)) \div Scale
\* variant: the range is not applied to the y coordinate
RingYUnit(radar_range, a) == Cos(a)
RingY(radar_range, a) == (radar_range * Cos(a)) \div Scale

RingPoints(radar_range, angle) ==
    [k \in 1..Len(angle) |-> << RingX(radar_range, angle[k]), RingY(radar_range, angle[k]) >>]

\* the ring of every range, computed once
RingTable == [r \in Ranges |-> RingPoints(r, RingAngle)]

plot_range_ring(radar_range, line_style) ==
    LET angle == RingAngle
        pts == RingTable[radar_range]
        eff == LineXYEffect(basemap, proj, pts, line_style)
    IN  /\ call' = [NoArgs EXCEPT !.op = "plot_range_ring", !.range = radar_range,
                                  !.angle = angle, !.pts = pts, !.style = line_style]
        /\ err' = eff.err
        /\ drawn' = eff.drawn
        /\ UNCHANGED <<loc, proj, basemap, plots, plot_vars, cbs, nCalls, fieldsCalled, allCompleted>>

(***************************************************************************)
(* plot_point (lines 221-247)                                              *)
(***************************************************************************)
\* lines 245-246: label_lonlat is computed, the text position is basemap(lon, lat)
LabelPosition(bm, lon, lat, label_offset) ==
    LET label_lonlat == << lon + label_offset[1], lat + label_offset[2] >>
    IN  BasemapCall(bm, lon, lat)

PointEffect(bm, lon, lat, symbol, label_text, label_offset) ==
    IF ~Callable(bm)
    THEN [err |-> TRUE, drawn |-> <<>>]
    ELSE LET p == BasemapCall(bm, lon, lat)
             marker == [kind |-> "plot", pts |-> <<p, p>>, style |-> symbol, text |-> NoneText]
             label == [kind |-> "text", pts |-> << LabelPosition(bm, lon, lat, label_offset) >>,
                       style |-> NoneText, text |-> label_text]
         IN  [err |-> FALSE,
              drawn |-> IF label_text # NoneText THEN <<marker, label>> ELSE <<marker>>]

plot_point(lon, lat, symbol, label_text, label_offset) ==
    /\ call' = [NoArgs EXCEPT !.op = "plot_point", !.pts = << <<lon, lat>> >>,
                              !.style = symbol, !.text = label_text, !.offset = label_offset]
    /\ err' = PointEffect(basemap, lon, lat, symbol, label_text, label_offset).err
    /\ drawn' = PointEffect(basemap, lon, lat, symbol, label_text, label_offset).drawn
    /\ UNCHANGED <<loc, proj, basemap, plots, plot_vars, cbs, nCalls, fieldsCalled, allCompleted>>

(***************************************************************************)
(* plot_ppi_map (lines 97-219)                                             *)
(***************************************************************************)
\* variant: projects the accessor's coordinates as they are
SweepLonLatUnscaled(p, gates) == ProjInverseAll(p, gates)

\* line 182: self.proj(x * 1000.0, y * 1000.0, inverse=True)
SweepLonLat(p, gates) ==
    ProjInverseAll(p, [i \in 1..Len(gates) |-> << gates[i][1] * 1000, gates[i][2] * 1000 >>])

\* variant: auto_range is ignored
ExtentExplicit(auto_range, ll, b) == b

\* lines 184-188: <<min_lon, max_lon, min_lat, max_lat>> given to Basemap
Extent(auto_range, ll, b) ==
    IF auto_range
    THEN << SetMin({ ll[i][1] : i \in 1..Len(ll) }), SetMax({ ll[i][1] : i \in 1..Len(ll) }),
            SetMin({ ll[i][2] : i \in 1..Len(ll) }), SetMax({ ll[i][2] : i \in 1..Len(ll) }) >>
    ELSE b

\* The statements of plot_ppi_map that can raise, in program order: the
\* accessors of the base class (lines 166-175), lat.max() on an empty sweep
\* (line 185), the Basemap constructor and its draw calls (lines 191-199),
\* pcolormesh (line 204), readshapefile (line 207), _set_title (line 210) and
\* plot_colorbar (line 217).  A collaborator raises at the caller's choice.
\* NoRaise is past the last statement.
NoRaise == 99
RaiseSteps == [get_data |-> 2, basemap |-> 4, pcolormesh |-> 6,
               readshapefile |-> 7, set_title |-> 8, plot_colorbar |-> 10, none |-> NoRaise]
ExtentStep == 3
StoreStep == 5
AppendStep == 9

FailPoints == DOMAIN RaiseSteps

\* the failure points a call with these options passes through
Applicable(fp, title_flag, colorbar_flag, shapefile) ==
    /\ fp = "readshapefile" => shapefile # NoneText
    /\ fp = "set_title" => title_flag
    /\ fp = "plot_colorbar" => colorbar_flag

\* the step at which the call raises (NoRaise when it returns)
StopStep(fp, auto_range, gates) ==
    Min2(RaiseSteps[fp], IF auto_range /\ gates = <<>> THEN ExtentStep ELSE NoRaise)

\* the statement a call stopping at this step raised out of
RaisedAt(stop) ==
    IF stop = ExtentStep THEN "extent" ELSE CHOOSE fp \in FailPoints : RaiseSteps[fp] = stop

\* variant: self.basemap is assigned as the last statement of the call
BasemapStoredLast(stop) == stop = NoRaise
\* line 200 runs iff nothing raised before it
BasemapStored(stop) == stop > StoreStep
\* lines 213-214 run iff nothing raised before them
ListsAppended(stop) == stop > AppendStep

\* self.plots.append(pm), self.plot_vars.append(field)
AppendPlot(list, pm) == Append(list, pm)
\* variant: the field is inserted at the front
InsertVar(list, field) == <<field>> \o list
AppendVar(list, field) == Append(list, field)

\* plot_colorbar of the base class appends the colorbar to self.cbs
AppendColorbar(list, cb) == Append(list, cb)

plot_ppi_map(field, gates, auto_range, b, title_flag, colorbar_flag, shapefile, fp) ==
    /\ nCalls < MaxCalls
    /\ Applicable(fp, title_flag, colorbar_flag, shapefile)
    /\ LET n == nCalls + 1
           stop == StopStep(fp, auto_range, gates)
           ll == SweepLonLat(proj, gates)
           ext == Extent(auto_range, ll, b)
           bm == Basemap(n, ext[1], ext[3], ext[2], ext[4])
           mesh == [kind |-> "mesh", pts |-> BasemapCallAll(bm, ll),
                    style |-> field, text |-> NoneText]
       IN  /\ basemap' = IF BasemapStored(stop) THEN bm ELSE basemap
           /\ drawn' = IF stop > RaiseSteps.pcolormesh THEN <<mesh>> ELSE <<>>
           /\ plots' = IF ListsAppended(stop) THEN AppendPlot(plots, n) ELSE plots
           /\ plot_vars' = IF ListsAppended(stop) THEN AppendVar(plot_vars, field) ELSE plot_vars
           /\ cbs' = IF colorbar_flag /\ stop > RaiseSteps.plot_colorbar
                     THEN AppendColorbar(cbs, n) ELSE cbs
           /\ err' = (stop # NoRaise)
           /\ allCompleted' = (allCompleted /\ stop = NoRaise)
           /\ nCalls' = n
           /\ fieldsCalled' = IF allCompleted /\ stop = NoRaise
                               THEN Append(fieldsCalled, field) ELSE <<>>
           /\ call' = [NoArgs EXCEPT !.op = "plot_ppi_map", !.field = field, !.pts = gates,
                                     !.auto_range = auto_range, !.bounds = b,
                                     !.raised = RaisedAt(stop)]
           /\ UNCHANGED <<loc, proj>>

OverlayOps == {"plot_point", "plot_line_geo", "plot_line_xy", "plot_range_ring"}

Next ==
    \/ \E field \in Fields, gates \in Sweeps, auto_range \in BOOLEAN, b \in BoundsArgs,
          d \in Decorations, fp \in FailPoints :
            plot_ppi_map(field, gates, auto_range, b, d[1], d[2], d[3], fp)
    \/ \E g \in GeoPoints, symbol \in Symbols, label_text \in LabelTexts,
          label_offset \in LabelOffsets :
            plot_point(g[1], g[2], symbol, label_text, label_offset)
    \/ \E line \in GeoLines : plot_line_geo(line, "r-")
    \/ \E pts \in XYLines, s \in LineStyles : plot_line_xy(pts, s)
    \/ \E r \in Ranges : plot_range_ring(r, "r-")

Spec == Init /\ [][Next]_vars

(***************************************************************************)
(* Properties                                                              *)
(***************************************************************************)
Abs(n) == IF n < 0 THEN 0 - n ELSE n
Last(list) == list[Len(list)]
IsPpi == call.op = "plot_ppi_map"
Times1000(pts) == [i \in 1..Len(pts) |-> << pts[i][1] * 1000, pts[i][2] * 1000 >>]

\* C1: after n plot_ppi_map calls that all completed, plots and plot_vars hold
\* exactly n entries, the i-th being the mesh handle and the field of the i-th
\* call, and the stored basemap is the one the n-th call built (None for n = 0).
C1_CallsAppendInOrder ==
    allCompleted =>
        /\ Len(plots) = nCalls
        /\ Len(plot_vars) = nCalls
        /\ \A i \in 1..nCalls : plots[i] = i /\ plot_vars[i] = fieldsCalled[i]
        /\ basemap.id = nCalls
        /\ (nCalls = 0 <=> basemap = None)

C1_Witness ==
    /\ allCompleted
    /\ nCalls = 2
    /\ plot_vars[1] # plot_vars[2]
    /\ basemap.id = 2

\* C2: a call of plot_point, plot_line_geo, plot_line_xy or plot_range_ring
\* made while basemap is None raises and draws nothing.
C2_OverlayWithoutBasemapRaises ==
    (call.op \in OverlayOps /\ basemap = None) => (err /\ drawn = <<>>)

C2_Witness ==
    /\ call.op = "plot_range_ring"
    /\ basemap = None
    /\ err

\* C3: plot_range_ring(r) hands plot_line_xy exactly 360 points, each at
\* distance r from the origin (within the rounding of the arithmetic), the
\* first and the last being the same point.
DistanceTolerance(r) == (r \div 1000) + 2

AtDistance(pt, r) ==
    Abs(pt[1] * pt[1] + pt[2] * pt[2] - r * r)
        <= 2 * r * DistanceTolerance(r) + DistanceTolerance(r) * DistanceTolerance(r)

C3_RingPoints ==
    call.op = "plot_range_ring" =>
        /\ Len(call.pts) = 360
        /\ \A k \in 1..Len(call.pts) : AtDistance(call.pts[k], call.range)
        /\ Abs(call.pts[1][1] - call.pts[360][1]) <= 1
        /\ Abs(call.pts[1][2] - call.pts[360][2]) <= 1

C3_Witness ==
    /\ call.op = "plot_range_ring"
    /\ call.range = 40000
    /\ ~err

\* C4: plot_line_xy(xs, ys, style) has the effect of plot_line_geo on the
\* projection of (xs, ys) by self.proj: same vertices in the same order, same
\* style, on the current basemap, and the same error when there is none.
C4_LineXYIsLineGeoOfProjection ==
    call.op = "plot_line_xy" =>
        [err |-> err, drawn |-> drawn]
            = LineGeoEffect(basemap, ProjInverseAll(proj, call.pts), call.style)

C4_Witness ==
    /\ call.op = "plot_line_xy"
    /\ ~err
    /\ Len(call.pts) >= 2
    /\ Len(drawn) = 1
    /\ Len(drawn[1].pts) = Len(call.pts)
    /\ call.pts[1][1] >= 1000

\* C5: the basemap plot_ppi_map builds has, with auto_range, the componentwise
\* minimum and maximum of the projected sweep's longitudes and latitudes as its
\* bounds, whatever bounds were passed; without auto_range, the bounds passed.
SweepLons == { SweepLonLat(proj, call.pts)[i][1] : i \in 1..Len(call.pts) }
SweepLats == { SweepLonLat(proj, call.pts)[i][2] : i \in 1..Len(call.pts) }
IsLeast(v, S) == v \in S /\ \A w \in S : v <= w
IsGreatest(v, S) == v \in S /\ \A w \in S : v >= w

C5_Extent ==
    (IsPpi /\ basemap.id = nCalls) =>
        IF call.auto_range
        THEN /\ IsLeast(basemap.llcrnrlon, SweepLons)
             /\ IsGreatest(basemap.urcrnrlon, SweepLons)
             /\ IsLeast(basemap.llcrnrlat, SweepLats)
             /\ IsGreatest(basemap.urcrnrlat, SweepLats)
        ELSE << basemap.llcrnrlon, basemap.urcrnrlon, basemap.llcrnrlat, basemap.urcrnrlat >>
                 = call.bounds

C5_Witness ==
    /\ IsPpi
    /\ basemap.id = nCalls
    /\ call.auto_range
    /\ basemap.llcrnrlon < basemap.urcrnrlon
    /\ << basemap.llcrnrlon, basemap.urcrnrlon, basemap.llcrnrlat, basemap.urcrnrlat >>
           # call.bounds

\* C6: plot_point with a label_text places the text at the map position of
\* (lon + label_offset[0], lat + label_offset[1]) and the marker at the map
\* position of (lon, lat); without a label_text only the marker is drawn.
C6_LabelAtOffset ==
    (call.op = "plot_point" /\ ~err) =>
        LET lon == call.pts[1][1]
            lat == call.pts[1][2]
            p == BasemapCall(basemap, lon, lat)
        IN  /\ drawn[1].kind = "plot" /\ drawn[1].pts = <<p, p>>
            /\ IF call.text = NoneText
               THEN Len(drawn) = 1
               ELSE /\ Len(drawn) = 2
                    /\ drawn[2].kind = "text"
                    /\ drawn[2].text = call.text
                    /\ drawn[2].pts = << BasemapCall(basemap, lon + call.offset[1],
                                                     lat + call.offset[2]) >>

\* C7 as stated: the k-th of the 360 angles (k = 0..359) is k * 2*pi/360, so
\* the angles stay below 2*pi.
C7_StepIsTwoPiOver360 ==
    call.op = "plot_range_ring" =>
        /\ Len(call.angle) = 360
        /\ \A k \in 0..359 : Abs(360 * call.angle[k + 1] - k * TwoPi) <= 360
        /\ call.angle[360] < TwoPi

\* C7 amended: the k-th of the 360 angles (k = 0..359) is k * 2*pi/359: the
\* angles are uniformly spaced over the closed interval [0, 2*pi], both ends
\* included.
C7_StepIsTwoPiOver359 ==
    call.op = "plot_range_ring" =>
        /\ Len(call.angle) = 360
        /\ \A k \in 0..359 : Abs(359 * call.angle[k + 1] - k * TwoPi) <= 359
        /\ call.angle[1] = 0
        /\ call.angle[360] = TwoPi

C7_Witness ==
    /\ call.op = "plot_range_ring"
    /\ Len(call.angle) = 360
    /\ call.angle[2] > 0
    /\ call.angle[360] = TwoPi

\* C8 as stated: the mesh of plot_ppi_map has a gate with accessor coordinates
\* (x, y) where plot_line_xy puts a vertex (x, y) on the same basemap.
C8_GatesProjectedUnscaled ==
    (IsPpi /\ Len(drawn) = 1) =>
        drawn[1].pts = LineXYEffect(basemap, proj, call.pts, "r-").drawn[1].pts

\* C8 amended: the mesh of plot_ppi_map has a gate with accessor coordinates
\* (x, y) where plot_line_xy puts a vertex (1000 x, 1000 y) on the same basemap.
C8_GatesProjectedTimes1000 ==
    (IsPpi /\ Len(drawn) = 1) =>
        drawn[1].pts = LineXYEffect(basemap, proj, Times1000(call.pts), "r-").drawn[1].pts

C8_Witness ==
    /\ IsPpi
    /\ Len(drawn) = 1
    /\ Len(call.pts) = 3
    /\ drawn[1].pts # LineXYEffect(basemap, proj, call.pts, "r-").drawn[1].pts

\* C9: plot_point, plot_line_geo, plot_line_xy and plot_range_ring, returning
\* or raising, leave basemap, plots, plot_vars, cbs, proj and loc unchanged,
\* and no call at all changes proj or loc.
C9_OverlaysReadOnly ==
    [][ /\ UNCHANGED <<proj, loc>>
        /\ call'.op \in OverlayOps =>
               UNCHANGED <<basemap, plots, plot_vars, cbs, proj, loc>> ]_vars

C9_Witness ==
    /\ call.op = "plot_line_geo"
    /\ ~err
    /\ Len(plots) = 2
    /\ Len(cbs) = 1

\* C10 as stated: basemap is None exactly when plots is empty, otherwise it is
\* the basemap of the call that appended the last entry of plots; plots and
\* plot_vars have the same length; a plot_ppi_map call that raises leaves
\* basemap, plots and plot_vars as they were.
C10_BasemapAgreesWithLists ==
    [][ /\ (basemap' = None <=> plots' = <<>>)
        /\ plots' # <<>> => basemap'.id = Last(plots')
        /\ Len(plots') = Len(plot_vars')
        /\ (call'.op = "plot_ppi_map" /\ err') => UNCHANGED <<basemap, plots, plot_vars>> ]_vars

\* C10 amended: plots and plot_vars have the same length, and when plots is not
\* empty basemap is not None and was built by the call that appended the last
\* entry of plots or by a later one.  A plot_ppi_map call that raises before
\* line 200 (out of the accessors, the extent or the Basemap construction)
\* leaves basemap, plots and plot_vars as they were; one that raises out of
\* pcolormesh, readshapefile or _set_title has stored its basemap and leaves
\* plots and plot_vars as they were; one that raises out of plot_colorbar has
\* stored its basemap and appended its mesh and field.
C10_PartialUpdate ==
    [][ /\ Len(plots') = Len(plot_vars')
        /\ plots' # <<>> => (basemap' # None /\ basemap'.id >= Last(plots'))
        /\ (call'.op = "plot_ppi_map" /\ call'.raised \in {"get_data", "extent", "basemap"})
              => (err' /\ UNCHANGED <<basemap, plots, plot_vars>>)
        /\ (call'.op = "plot_ppi_map"
                /\ call'.raised \in {"pcolormesh", "readshapefile", "set_title"})
              => (err' /\ basemap'.id = nCalls' /\ UNCHANGED <<plots, plot_vars>>)
        /\ (call'.op = "plot_ppi_map" /\ call'.raised = "plot_colorbar")
              => /\ err'
                 /\ basemap'.id = nCalls'
                 /\ plots' = Append(plots, nCalls')
                 /\ plot_vars' = Append(plot_vars, call'.field) ]_vars

C10_Witness ==
    /\ IsPpi
    /\ call.raised = "pcolormesh"
    /\ basemap.id = 1
    /\ plots = <<>>
====
